---- MODULE Spec2Model ----
(***************************************************************************)
(* Model of biotech_news_agent.py: the feed ingestion loop of run_agent    *)
(* (deduplication and time filter), the tiered Summarizer, score_article,  *)
(* the ranking sort, build_linkedin_post and the optional publish step.    *)
(*                                                                         *)
(* A Python str is a sequence of one-character strings.  The Python value  *)
(* None is the one-element sequence None, which is no string.              *)
(***************************************************************************)
EXTENDS Integers, Sequences, FiniteSets, TLC

VARIABLES
    pc,          \* position of run_agent: "start", "feeds", "entries", ... "done", "raised"
    tz,          \* the local UTC offset of the host, in hours
    clock,       \* the wall clock read by datetime.utcnow()
    ticks,       \* how often the clock has advanced
    summarizer,  \* run_agent: summarizer
    cutoff,      \* run_agent: cutoff
    feed_i,      \* index of the feed of CONFIG['RSS_FEEDS'] being read
    seen_urls,   \* run_agent: seen_urls
    collected,   \* run_agent: collected
    log,         \* what the entry loop did with each raw entry, in order
    todo,        \* sorted(collected, ...) still to be enriched
    enriched,    \* run_agent: enriched
    files,       \* the contents of the two artifacts in OUTPUT_DIR
    post_text,   \* run_agent: post_text
    publish,     \* what the call of post_to_linkedin did
    report,      \* what the publish step printed
    args,        \* arguments of the function under test
    result       \* <<>> until it returns, then <<its return value>>

runVars == <<pc, tz, clock, ticks, summarizer, cutoff, feed_i, seen_urls, collected,
             log, todo, enriched, files, post_text, publish, report>>
callVars == <<args, result>>
vars == <<pc, tz, clock, ticks, summarizer, cutoff, feed_i, seen_urls, collected,
          log, todo, enriched, files, post_text, publish, report, args, result>>

--------------------------------------------------------------------------
(* Python values *)

None == <<"<None>">>

Truthy(v) == v # None /\ v # <<>>

\* Python's `a or b` on values that are str or None
Or(a, b) == IF Truthy(a) THEN a ELSE b

Min(a, b) == IF a <= b THEN a ELSE b

Max(a, b) == IF a >= b THEN a ELSE b

\* s[:n]
Slice(s, n) ==
    IF n >= 0 THEN SubSeq(s, 1, Min(n, Len(s)))
              ELSE SubSeq(s, 1, Max(0, Len(s) + n))

Uppers == <<"A","B","C","D","E","F","G","H","I","J","K","L","M",
            "N","O","P","Q","R","S","T","U","V","W","X","Y","Z">>

Lowers == <<"a","b","c","d","e","f","g","h","i","j","k","l","m",
            "n","o","p","q","r","s","t","u","v","w","x","y","z">>

LowerChar(c) ==
    IF \E i \in 1..Len(Uppers) : Uppers[i] = c
    THEN Lowers[CHOOSE i \in 1..Len(Uppers) : Uppers[i] = c]
    ELSE c

\* str.lower()
Lower(s) == [i \in 1..Len(s) |-> LowerChar(s[i])]

\* `sub in s`
Contains(s, sub) ==
    \E i \in 0..(Len(s) - Len(sub)) :
        \A j \in 1..Len(sub) : s[i + j] = sub[j]

Whitespace == {" ", "\n", "\t"}

RECURSIVE LStrip(_)
LStrip(s) == IF s # <<>> /\ Head(s) \in Whitespace THEN LStrip(Tail(s)) ELSE s

RECURSIVE RStrip(_)
RStrip(s) ==
    IF s # <<>> /\ s[Len(s)] \in Whitespace
    THEN RStrip(SubSeq(s, 1, Len(s) - 1)) ELSE s

\* str.strip()
Strip(s) == RStrip(LStrip(s))

RECURSIVE Join(_, _)
\* sep.join(parts)
Join(sep, parts) ==
    IF parts = <<>> THEN <<>>
    ELSE IF Len(parts) = 1 THEN parts[1]
    ELSE parts[1] \o sep \o Join(sep, Tail(parts))

--------------------------------------------------------------------------
(* score_article *)

KEYWORDS == <<
    <<"C","R","I","S","P","R">>,
    <<"g","e","n","e"," ","t","h","e","r","a","p","y">>,
    <<"m","R","N","A">>,
    <<"v","a","c","c","i","n","e">>,
    <<"c","l","i","n","i","c","a","l"," ","t","r","i","a","l">>,
    <<"F","D","A">>,
    <<"b","i","o","s","i","m","i","l","a","r">>,
    <<"b","i","o","t","e","c","h">>,
    <<"s","y","n","t","h","e","t","i","c"," ","b","i","o","l","o","g","y">>,
    <<"C","A","R","-","T">>,
    <<"g","e","n","o","m","e">>,
    <<"s","e","q","u","e","n","c","i","n","g">>,
    <<"b","i","o","i","n","f","o","r","m","a","t","i","c","s">> >>

SignalWords == <<
    [w |-> <<"s","t","u","d","y">>, v |-> 1],
    [w |-> <<"t","r","i","a","l">>, v |-> 2],
    [w |-> <<"a","p","p","r","o","v","a","l">>, v |-> 3],
    [w |-> <<"F","D","A">>, v |-> 3],
    [w |-> <<"b","r","e","a","k","t","h","r","o","u","g","h">>, v |-> 2] >>

ScoreText(title, summary) == Lower(title \o <<" ">> \o Or(summary, <<>>))

RECURSIVE KeywordLoop(_, _, _)
\* for k in keywords: if k.lower() in text: s += 2
KeywordLoop(keywords, text, s) ==
    IF keywords = <<>> THEN s
    ELSE KeywordLoop(Tail(keywords), text,
                     IF Contains(text, Lower(Head(keywords))) THEN s + 2 ELSE s)

RECURSIVE SignalLoop(_, _, _)
\* for w, v in [...]: if w.lower() in text: s += v
SignalLoop(words, text, s) ==
    IF words = <<>> THEN s
    ELSE SignalLoop(Tail(words), text,
                    IF Contains(text, Lower(Head(words).w)) THEN s + Head(words).v ELSE s)

score_article_nolower(title, summary, keywords) ==
    LET text == title \o <<" ">> \o Or(summary, <<>>)
    IN  SignalLoop(SignalWords, text, KeywordLoop(keywords, text, 0))

score_article(title, summary, keywords) ==
    LET text == ScoreText(title, summary)
    IN  SignalLoop(SignalWords, text, KeywordLoop(keywords, text, 0))

--------------------------------------------------------------------------
(* Summarizer *)

Punct == {".", "!", "?"}

RECURSIVE SplitLoop(_, _, _, _)
\* re.split(r"(?<=[.!?])\s+", s): i scans s, start is where the current piece began
SplitLoop(s, i, start, acc) ==
    IF i > Len(s) THEN Append(acc, SubSeq(s, start, Len(s)))
    ELSE IF s[i] \in Whitespace /\ i > 1 /\ s[i - 1] \in Punct
    THEN LET run == {j \in i..Len(s) : \A k \in i..j : s[k] \in Whitespace}
             e == CHOOSE j \in run : \A k \in run : k <= j
         IN  SplitLoop(s, e + 1, e + 1, Append(acc, SubSeq(s, start, i - 1)))
    ELSE SplitLoop(s, i + 1, start, acc)

SplitSentences(s) == SplitLoop(s, 1, 1, <<>>)

\* " ".join(s[:2])[:max_chars]
Extractive(text, max_chars) ==
    Slice(Join(<<" ">>, Slice(SplitSentences(text), 2)), max_chars)

\* Summarizer.__init__: the local pipeline is built only when no key is set
SummarizerInit(openai_key, hf_available, pipeline_ok) ==
    [openai_key |-> openai_key,
     hf_summarizer |-> (~Truthy(openai_key)) /\ hf_available /\ pipeline_ok]

\* `local` is what the pipeline call does on text[:8000]: it returns
\* local.out, or raises when ~local.ok
hf_summarize_notrunc(self, text, max_chars, local) ==
    IF local.ok THEN local.out ELSE Extractive(text, max_chars)

hf_summarize(self, text, max_chars, local) ==
    IF local.ok THEN Slice(local.out, max_chars)
    ELSE Extractive(text, max_chars)

\* `remote` is what the HTTP call does: it yields the content remote.out, or
\* raises (transport error, bad status, malformed response) when ~remote.ok
openai_summarize(self, text, max_chars, remote, local) ==
    IF remote.ok THEN Slice(Strip(remote.out), max_chars)
    ELSE IF self.hf_summarizer THEN hf_summarize(self, text, max_chars, local)
    ELSE Slice(text, max_chars)

summarize(self, text0, max_chars, remote, local) ==
    IF ~Truthy(text0) THEN <<>>
    ELSE LET text == Strip(text0)
         IN  IF Truthy(self.openai_key)
             THEN openai_summarize(self, text, max_chars, remote, local)
             ELSE IF self.hf_summarizer
             THEN hf_summarize(self, text, max_chars, local)
             ELSE Extractive(text, max_chars)

--------------------------------------------------------------------------
(* build_linkedin_post *)

MAX_ARTICLES == 10

TopItems == 5

\* the two non-ASCII characters of the post, each one character of a str
Bullet == "<bullet>"

EmDash == "<em dash>"

RECURSIVE CollapseWs(_)
\* re.sub(r"\s+", " ", s)
CollapseWs(s) ==
    IF s = <<>> THEN <<>>
    ELSE IF Head(s) \in Whitespace
    THEN <<" ">> \o CollapseWs(LStrip(s))
    ELSE <<Head(s)>> \o CollapseWs(Tail(s))

Digits == {"0","1","2","3","4","5","6","7","8","9"}

SchemeChars == {Uppers[i] : i \in DOMAIN Uppers} \cup {Lowers[i] : i \in DOMAIN Lowers}
               \cup Digits \cup {"+", "-", "."}

Letters == {Uppers[i] : i \in DOMAIN Uppers} \cup {Lowers[i] : i \in DOMAIN Lowers}

\* the least index of s holding a character of cs, or Len(s) + 1
FirstOf(s, cs) ==
    LET at == {i \in 1..Len(s) : s[i] \in cs}
    IN  IF at = {} THEN Len(s) + 1 ELSE CHOOSE i \in at : \A j \in at : i <= j

\* urlparse(url).netloc: drop a leading "scheme:", then what follows "//" up
\* to the next "/", "?" or "#"
Netloc(url) ==
    LET c == FirstOf(url, {":"})
        scheme == c > 1 /\ c <= Len(url) /\ url[1] \in Letters
                  /\ \A i \in 1..(c - 1) : url[i] \in SchemeChars
        rest == IF scheme THEN SubSeq(url, c + 1, Len(url)) ELSE url
    IN  IF Len(rest) >= 2 /\ rest[1] = "/" /\ rest[2] = "/"
        THEN LET tail == SubSeq(rest, 3, Len(rest))
             IN  SubSeq(tail, 1, FirstOf(tail, {"/", "?", "#"}) - 1)
        ELSE <<>>

\* "Daily biotech news roundup [em dash] " + date + "\n\n"
Header(date) ==
    <<"D","a","i","l","y"," ","b","i","o","t","e","c","h"," ","n","e","w","s"," ",
      "r","o","u","n","d","u","p"," ",EmDash," ">> \o date \o <<"\n","\n">>

\* f"[bullet] {title} ({src}) [em dash] {summary} {it['link']}"
FirstPassLine(it) ==
    LET title == Strip(CollapseWs(it.title))
        summary == Strip(CollapseWs(it.summary))
        src == Or(it.source, Netloc(it.link))
    IN  <<Bullet," ">> \o title \o <<" ","(">> \o src \o <<")"," ",EmDash," ">>
        \o summary \o <<" ">> \o it.link

\* f"[bullet] {it['title']} [em dash] {it['summary']} {it['link']}\n\n"
SecondPassLine(it) ==
    <<Bullet," ">> \o it.title \o <<" ",EmDash," ">> \o it.summary \o <<" ">> \o it.link
    \o <<"\n","\n">>

RECURSIVE Concat(_)
Concat(parts) == IF parts = <<>> THEN <<>> ELSE Head(parts) \o Concat(Tail(parts))

FirstPass(items, date) ==
    LET shown == Slice(items, MAX_ARTICLES)
    IN  Join(<<"\n","\n">>,
             <<Header(date)>> \o [i \in 1..Len(shown) |-> FirstPassLine(shown[i])])

SecondPass(items, date) ==
    LET shown == Slice(items, TopItems)
    IN  Header(date) \o Concat([i \in 1..Len(shown) |-> SecondPassLine(shown[i])])

\* the second pass forgets the final post[:max_chars_total]
build_linkedin_post_uncut(items, max_chars_total, date1, date2) ==
    LET post == FirstPass(items, date1)
    IN  IF Len(post) > max_chars_total THEN SecondPass(items, date2) ELSE post

\* the second pass keeps MAX_ARTICLES items instead of the top 5
build_linkedin_post_all(items, max_chars_total, date1, date2) ==
    LET post == FirstPass(items, date1)
    IN  IF Len(post) > max_chars_total
        THEN Slice(Header(date2) \o
                   Concat([i \in 1..Len(Slice(items, MAX_ARTICLES)) |-> SecondPassLine(items[i])]),
                   max_chars_total)
        ELSE post

\* date1 and date2 are the two readings of datetime.utcnow(), formatted
build_linkedin_post(items, max_chars_total, date1, date2) ==
    LET post == FirstPass(items, date1)
    IN  IF Len(post) > max_chars_total
        THEN Slice(SecondPass(items, date2), max_chars_total)
        ELSE post

--------------------------------------------------------------------------
(* Idle values: the part of the state a specification does not use *)

NoArgs == [fn |-> "none"]

IdleRun ==
    /\ pc = "idle"
    /\ tz = 0
    /\ clock = <<0, 0>>
    /\ ticks = 0
    /\ summarizer = SummarizerInit(None, FALSE, FALSE)
    /\ cutoff = <<0, 0>>
    /\ feed_i = 0
    /\ seen_urls = {}
    /\ collected = <<>>
    /\ log = <<>>
    /\ todo = <<>>
    /\ enriched = <<>>
    /\ files = [json |-> None, txt |-> None]
    /\ post_text = None
    /\ publish = "none"
    /\ report = "none"

IdleCall == args = NoArgs /\ result = <<>>

--------------------------------------------------------------------------
(* score_article called on sample inputs *)

ScoreTitles == {
    <<"F","D","A"," ","a","p","p","r","o","v","e","s"," ","n","e","w"," ",
      "C","R","I","S","P","R"," ","t","r","i","a","l">>,
    <<"c","r","i","s","p","r"," ","C","R","I","S","P","R">>,
    <<"N","e","w"," ","A","P","P","R","O","V","A","L">>,
    <<"m","r","n","a"," ","S","t","u","d","y">>,
    <<>> }

ScoreSummaries == {
    None,
    <<>>,
    <<"A"," ","b","r","e","a","k","t","h","r","o","u","g","h"," ",
      "s","t","u","d","y"," ","s","h","o","w","s",".",".",".">>,
    <<"f","d","a"," ","T","r","i","a","l","s">>,
    <<"n","o","t","h","i","n","g">> }

ScoreKeywordPool == <<
    <<"C","R","I","S","P","R">>,
    <<"F","D","A">>,
    <<"t","r","i","a","l">>,
    <<"m","R","N","A">>,
    <<"v","a","c","c","i","n","e">> >>

RECURSIVE Pick(_, _)
\* the sub-list of pool at the indices in idx, in pool order
Pick(pool, idx) ==
    IF pool = <<>> THEN <<>>
    ELSE LET rest == Pick(Tail(pool), {i - 1 : i \in idx \ {1}})
         IN  IF 1 \in idx THEN <<Head(pool)>> \o rest ELSE rest

ScoreKeywordLists ==
    {Pick(ScoreKeywordPool, idx) : idx \in SUBSET (1..Len(ScoreKeywordPool))}
    \cup {KEYWORDS}

InitScore ==
    /\ IdleRun
    /\ args \in [fn : {"score_article"}, title : ScoreTitles,
                 summary : ScoreSummaries, keywords : ScoreKeywordLists]
    /\ result = <<>>

CallScore ==
    /\ args.fn = "score_article"
    /\ result = <<>>
    /\ result' = <<score_article(args.title, args.summary, args.keywords)>>
    /\ UNCHANGED <<args, runVars>>

NextScore == CallScore

SpecScore == InitScore /\ [][NextScore]_vars

--------------------------------------------------------------------------
(* Summarizer.summarize called on sample inputs *)

MaxChars == 8

SumTexts == {
    None,
    <<>>,
    <<" ">>,
    <<"H","i">>,
    <<"A","."," ","B","."," ","C",".">>,
    <<" ","A",".","\n"," ","B","!"," ","C","?"," ","D"," ">>,
    <<"A",".","B","."," ","C"," ","D">>,
    <<"U","p"," ","t","o"," ","9","."," ","O","k","?","\t","N","o">> }

ModelOutputs == {
    <<>>,
    <<"S","h","o","r","t">>,
    <<" ","A"," ","l","o","n","g","e","r"," ","o","n","e","."," ">> }

Outcomes == {[ok |-> FALSE, out |-> <<>>]} \cup [ok : {TRUE}, out : ModelOutputs]

ApiKeys == {None, <<>>, <<"s","k">>}

InitSummarize ==
    /\ IdleRun
    /\ args \in [fn : {"summarize"}, text : SumTexts, max_chars : (-1)..MaxChars,
                 openai_key : ApiKeys, hf_available : BOOLEAN, pipeline_ok : BOOLEAN,
                 remote : Outcomes, local : Outcomes]
    /\ result = <<>>

CallSummarize ==
    /\ args.fn = "summarize"
    /\ result = <<>>
    /\ result' = <<summarize(SummarizerInit(args.openai_key, args.hf_available, args.pipeline_ok),
                             args.text, args.max_chars, args.remote, args.local)>>
    /\ UNCHANGED <<args, runVars>>

NextSummarize == CallSummarize

SpecSummarize == InitSummarize /\ [][NextSummarize]_vars

--------------------------------------------------------------------------
(* Properties of score_article *)

Returned(fn) == args.fn = fn /\ result # <<>>

\* sub occurs in s, letter case ignored
OccursIgnoringCase(s, sub) ==
    \E i \in 0..(Len(s) - Len(sub)) :
        \A j \in 1..Len(sub) : LowerChar(s[i + j]) = LowerChar(sub[j])

Bonus(text, word, weight) == IF OccursIgnoringCase(text, word) THEN weight ELSE 0

ExampleArgs ==
    [fn |-> "score_article",
     title |-> <<"F","D","A"," ","a","p","p","r","o","v","e","s"," ","n","e","w"," ",
                 "C","R","I","S","P","R"," ","t","r","i","a","l">>,
     summary |-> <<"A"," ","b","r","e","a","k","t","h","r","o","u","g","h"," ",
                   "s","t","u","d","y"," ","s","h","o","w","s",".",".",".">>,
     keywords |-> <<<<"C","R","I","S","P","R">>, <<"F","D","A">>,
                    <<"t","r","i","a","l">>>>]

--------------------------------------------------------------------------
(* Properties of Summarizer.summarize *)

SelfOfArgs == SummarizerInit(args.openai_key, args.hf_available, args.pipeline_ok)

\* C1: for non-empty text and max_chars >= 0 the summary is never longer than
\* max_chars, whichever tier produced it.
SummaryWithinCap ==
    (Returned("summarize") /\ Truthy(args.text) /\ args.max_chars >= 0) =>
        Len(result[1]) <= args.max_chars

\* the local tier answered with more than max_chars characters and was cut
SummaryCutByLocalTier ==
    /\ Returned("summarize") /\ Truthy(args.text) /\ args.max_chars >= 0
    /\ ~Truthy(args.openai_key) /\ SelfOfArgs.hf_summarizer
    /\ args.local.ok /\ Len(args.local.out) > args.max_chars
    /\ Len(result[1]) = args.max_chars

\* C2: when the remote tier is active and its call fails, the result is that
\* of the local tier if there is one, and otherwise the first two sentences of
\* the text joined by a space and truncated to max_chars.
RemoteFailureFallsThrough ==
    (Returned("summarize") /\ Truthy(args.text) /\ args.max_chars >= 0
        /\ Truthy(args.openai_key) /\ ~args.remote.ok) =>
        result[1] = IF SelfOfArgs.hf_summarizer
                    THEN hf_summarize(SelfOfArgs, Strip(args.text), args.max_chars, args.local)
                    ELSE Slice(Join(<<" ">>, Slice(SplitSentences(Strip(args.text)), 2)),
                               args.max_chars)

--------------------------------------------------------------------------
(* build_linkedin_post called on sample inputs *)

MaxItems == 7

MaxCap == 200

ItemKinds == {
    [title |-> <<"a"," ","\n","b">>, summary |-> <<" ","s"," ">>,
     link |-> <<"h",":","/","/","a","/","1">>, source |-> None],
    [title |-> <<"T">>, summary |-> <<>>,
     link |-> <<"t",":","9">>, source |-> <<"S","r","c">>] }

ItemLists == UNION {[1..n -> ItemKinds] : n \in 0..MaxItems}

LongLists ==
    {[i \in 1..(MAX_ARTICLES + 1) |-> k] : k \in ItemKinds}

Dates == {
    <<<<"2","0","2","6","-","1","1","-","0","5">>, <<"2","0","2","6","-","1","1","-","0","5">>>>,
    <<<<"2","0","2","6","-","1","1","-","0","5">>, <<"2","0","2","6","-","1","1","-","0","6">>>> }

InitRender ==
    /\ IdleRun
    /\ args \in [fn : {"build_linkedin_post"}, items : ItemLists \cup LongLists,
                 max_chars_total : 0..MaxCap, dates : Dates]
    /\ result = <<>>

CallRender ==
    /\ args.fn = "build_linkedin_post"
    /\ result = <<>>
    /\ result' = <<build_linkedin_post(args.items, args.max_chars_total,
                                       args.dates[1], args.dates[2])>>
    /\ UNCHANGED <<args, runVars>>

NextRender == CallRender

SpecRender == InitRender /\ [][NextRender]_vars

--------------------------------------------------------------------------
(* Properties of build_linkedin_post *)

FirstPassTooLong ==
    Len(FirstPass(args.items, args.dates[1])) > args.max_chars_total

\* C3: the post is never longer than max_chars_total, on either pass; for an
\* empty item list it is the header and nothing else (cut to the cap when the
\* cap is shorter than the header).
PostWithinCap ==
    Returned("build_linkedin_post") =>
        /\ Len(result[1]) <= args.max_chars_total
        /\ args.items = <<>> =>
              /\ \E i \in 1..2 :
                    result[1] = Slice(Header(args.dates[i]), args.max_chars_total)
              /\ args.max_chars_total >= Len(Header(args.dates[1])) =>
                    result[1] = Header(args.dates[1])

\* the second pass was taken for a non-empty list and its text was cut
PostCutOnSecondPass ==
    /\ Returned("build_linkedin_post")
    /\ args.items # <<>>
    /\ FirstPassTooLong
    /\ Len(SecondPass(args.items, args.dates[2])) > args.max_chars_total
    /\ Len(result[1]) = args.max_chars_total

\* C4 as stated: whenever the first pass is longer than max_chars_total, the
\* returned post has exactly max_chars_total characters.
SecondPassExactlyCap ==
    (Returned("build_linkedin_post") /\ FirstPassTooLong) =>
        Len(result[1]) = args.max_chars_total

\* the compact text of the header and the first 5 items
CompactTop5 ==
    LET n == Min(5, Len(args.items))
        line(it) == <<Bullet, " ">> \o it.title \o <<" ", EmDash, " ">> \o it.summary
                    \o <<" ">> \o it.link \o <<"\n", "\n">>
    IN  Header(args.dates[2]) \o Concat([i \in 1..n |-> line(args.items[i])])

\* C4 as amended: whenever the first pass is longer than max_chars_total, the
\* post is the compact text of the header and the first 5 items cut to
\* max_chars_total, so its length is the smaller of max_chars_total and the
\* length of that text.
SecondPassCutToCap ==
    (Returned("build_linkedin_post") /\ FirstPassTooLong) =>
        /\ result[1] = SubSeq(CompactTop5, 1, Min(args.max_chars_total, Len(CompactTop5)))
        /\ Len(result[1]) = Min(args.max_chars_total, Len(CompactTop5))

\* 7 items whose first pass is too long, rebuilt from 5 and cut to the cap
SevenItemsCutToCap ==
    /\ Returned("build_linkedin_post")
    /\ Len(args.items) = 7
    /\ FirstPassTooLong
    /\ args.max_chars_total > Len(Header(args.dates[2]))
    /\ Len(result[1]) = args.max_chars_total

--------------------------------------------------------------------------
(* datetime: <<whole hours since the start of the month, microseconds>> *)

TIME_WINDOW_HOURS == 48

DtLess(a, b) == a[1] < b[1] \/ (a[1] = b[1] /\ a[2] < b[2])

\* dt - timedelta(hours=h)
MinusHours(dt, h) == <<dt[1] - h, dt[2]>>

DigitChars == <<"0","1","2","3","4","5","6","7","8","9">>

TwoDigits(n) == <<DigitChars[(n \div 10) + 1], DigitChars[(n % 10) + 1]>>

\* dt.strftime("%Y-%m-%d")
DateStr(dt) ==
    <<"2","0","2","6","-","1","1","-">> \o TwoDigits(1 + (dt[1] \div 24))

\* dt.isoformat(): the fraction is printed only when it is not zero
IsoFormat(dt) ==
    DateStr(dt) \o <<"T">> \o TwoDigits(dt[1] % 24) \o <<":","0","0",":","0","0">>
    \o (IF dt[2] = 0 THEN <<>>
        ELSE <<".","0","0","0","0","0">> \o <<DigitChars[dt[2] + 1]>>)

\* time.mktime reads the struct_time as local time: the epoch hour of <<h>>
Mktime(st, offset) == st[1] - offset

\* datetime.utcfromtimestamp
UtcFromTimestamp(ts) == <<ts, 0>>

\* the characters of an isoformat string, in code point order
AsciiOrder == <<"-", ".", "/", "0","1","2","3","4","5","6","7","8","9", ":", "T">>

Ord(c) == CHOOSE i \in DOMAIN AsciiOrder : AsciiOrder[i] = c

\* a < b on str
StrLess(a, b) ==
    \E i \in 1..Min(Len(a) + 1, Len(b)) :
        /\ \A j \in 1..(i - 1) : a[j] = b[j]
        /\ i > Len(a) \/ Ord(a[i]) < Ord(b[i])

--------------------------------------------------------------------------
(* the two sorts of run_agent *)

RECURSIVE PubSortLoop(_, _)
PubSortLoop(rest, acc) ==
    IF rest = <<>> THEN acc
    ELSE LET x == Head(rest)
             n == Cardinality({i \in DOMAIN acc : ~DtLess(acc[i].published, x.published)})
         IN  PubSortLoop(Tail(rest),
                         SubSeq(acc, 1, n) \o <<x>> \o SubSeq(acc, n + 1, Len(acc)))

\* sorted(collected, key=lambda x: x['published'], reverse=True): stable
SortByPublished(items) == PubSortLoop(items, <<>>)

\* (a['score'], a['published']) < (b['score'], b['published'])
RankKeyLess(a, b) ==
    a.score < b.score \/ (a.score = b.score /\ StrLess(a.published, b.published))

RECURSIVE RankSortLoop(_, _)
RankSortLoop(rest, acc) ==
    IF rest = <<>> THEN acc
    ELSE LET x == Head(rest)
             n == Cardinality({i \in DOMAIN acc : ~RankKeyLess(acc[i], x)})
         IN  RankSortLoop(Tail(rest),
                          SubSeq(acc, 1, n) \o <<x>> \o SubSeq(acc, n + 1, Len(acc)))

RECURSIVE RankSortLoopReversed(_, _)
RankSortLoopReversed(rest, acc) ==
    IF rest = <<>> THEN acc
    ELSE LET x == Head(rest)
             n == Cardinality({i \in DOMAIN acc : RankKeyLess(x, acc[i])})
         IN  RankSortLoopReversed(Tail(rest),
                          SubSeq(acc, 1, n) \o <<x>> \o SubSeq(acc, n + 1, Len(acc)))

\* an ascending sort read backwards: equal keys come out in reverse order
RankSortReversed(items) == RankSortLoopReversed(items, <<>>)

\* enriched.sort(key=lambda x: (x['score'], x['published']), reverse=True): stable
RankSort(items) == RankSortLoop(items, <<>>)

--------------------------------------------------------------------------
(* run_agent *)

SummaryCap == 280

DefaultPostCap == 1200

StartHour == 100

MaxTicks == 1

NumFeeds == 2

MaxEntries == 2

TzOffsets == {0, 1}

\* a struct_time is <<h>>; a missing one is <<>>
NoTime == <<>>

Url1 == <<"h",":","/","/","a","/","1">>

Url2 == <<"t",":","9">>

EntryKinds == {
    [title |-> <<"F","D","A"," ","t","r","i","a","l">>,
     summary |-> <<"<","b",">","A","<","/","b",">"," ","s","t","u","d","y",".">>,
     source |-> None],
    [title |-> <<>>, summary |-> <<>>, source |-> <<"S","r","c">>] }

\* what a feed may hold: any field may be missing
RawEntries ==
    {[link |-> l, id |-> d, title |-> k.title, summary |-> k.summary,
      source |-> k.source, published_parsed |-> p, updated_parsed |-> u] :
        l \in {None, <<>>, Url1, Url2}, d \in {None, Url1}, k \in EntryKinds,
        p \in {NoTime, <<StartHour - TIME_WINDOW_HOURS>>,
               <<StartHour - TIME_WINDOW_HOURS + 1>>},
        u \in {NoTime, <<StartHour - TIME_WINDOW_HOURS + 1>>}}

RECURSIVE StripTags(_)
\* BeautifulSoup(s, 'html.parser').get_text(): the text outside the tags
StripTags(s) ==
    IF s = <<>> THEN <<>>
    ELSE IF Head(s) = "<" /\ FirstOf(s, {">"}) <= Len(s)
    THEN StripTags(SubSeq(s, FirstOf(s, {">"}) + 1, Len(s)))
    ELSE <<Head(s)>> \o StripTags(Tail(s))

\* link = entry.get('link') or entry.get('id')
EntryLink(entry) == Or(entry.link, entry.id)

SkipsNoDedup(link, seen) == ~Truthy(link)

\* if not link or link in seen_urls: continue
Skips(link, seen) == ~Truthy(link) \/ link \in seen

SeenIfFresh(seen, link, fresh) == IF fresh THEN seen \cup {link} ELSE seen

\* seen_urls.add(link), before the entry's time is looked at
SeenAdd(seen, link, fresh) == seen \cup {link}

\* pub_parsed = entry.get('published_parsed') or entry.get('updated_parsed')
PubParsed(entry) ==
    IF entry.published_parsed # NoTime THEN entry.published_parsed
    ELSE entry.updated_parsed

\* the published time of the entry, utcnow() when the feed gives none
PubDt(entry, now, offset) ==
    IF PubParsed(entry) # NoTime
    THEN UtcFromTimestamp(Mktime(PubParsed(entry), offset))
    ELSE now

TooOldReversed(pub_dt, limit) == DtLess(limit, pub_dt)

\* if pub_dt < cutoff: continue
TooOld(pub_dt, limit) == DtLess(pub_dt, limit)

Normalize(entry, link, pub_dt) ==
    [title |-> entry.title,
     summary_raw |-> IF Truthy(entry.summary) THEN StripTags(entry.summary) ELSE <<>>,
     link |-> link,
     published |-> pub_dt,
     source |-> IF Truthy(entry.source) THEN entry.source ELSE None]

StartClocks == {<<StartHour, 0>>, <<StartHour, 1>>}

Init ==
    /\ pc = "start"
    /\ tz \in TzOffsets
    /\ clock \in StartClocks
    /\ ticks = 0
    /\ summarizer = SummarizerInit(None, FALSE, FALSE)
    /\ cutoff = <<0, 0>>
    /\ feed_i = 0
    /\ seen_urls = {}
    /\ collected = <<>>
    /\ log = <<>>
    /\ todo = <<>>
    /\ enriched = <<>>
    /\ files = [json |-> None, txt |-> None]
    /\ post_text = None
    /\ publish = "none"
    /\ report = "none"
    /\ IdleCall

\* time passes between the start of the run and the reading of an entry
Tick ==
    /\ pc = "entries"
    /\ ticks < MaxTicks
    /\ ticks' = ticks + 1
    /\ clock' = IF clock[2] = 0 THEN <<clock[1], 1>> ELSE <<clock[1] + 1, 0>>
    /\ UNCHANGED <<pc, tz, summarizer, cutoff, feed_i, seen_urls, collected, log, todo,
                   enriched, files, post_text, publish, report, callVars>>

\* summarizer = Summarizer(); cutoff = utcnow() - timedelta(hours=TIME_WINDOW_HOURS)
Start ==
    /\ pc = "start"
    /\ \E key \in {None, <<"s","k">>}, hf_available \in BOOLEAN, pipeline_ok \in BOOLEAN :
          summarizer' = SummarizerInit(key, hf_available, pipeline_ok)
    /\ cutoff' = MinusHours(clock, TIME_WINDOW_HOURS)
    /\ collected' = <<>>
    /\ seen_urls' = {}
    /\ feed_i' = 1
    /\ pc' = "feeds"
    /\ UNCHANGED <<tz, clock, ticks, log, todo, enriched, files, post_text, publish,
                   report, callVars>>

\* fd = fetch_feed(feed_url) gave a parsed feed with entries
FetchFeed ==
    /\ pc = "feeds"
    /\ feed_i <= NumFeeds
    /\ pc' = "entries"
    /\ UNCHANGED <<tz, clock, ticks, summarizer, cutoff, feed_i, seen_urls, collected,
                   log, todo, enriched, files, post_text, publish, report, callVars>>

\* if not fd or 'entries' not in fd: continue
FetchFeedFailed ==
    /\ pc = "feeds"
    /\ feed_i <= NumFeeds
    /\ feed_i' = feed_i + 1
    /\ UNCHANGED <<pc, tz, clock, ticks, summarizer, cutoff, seen_urls, collected,
                   log, todo, enriched, files, post_text, publish, report, callVars>>

\* one turn of `for entry in fd['entries']`
ProcessEntry ==
    /\ pc = "entries"
    /\ Len(log) < MaxEntries
    /\ \E entry \in RawEntries :
          LET link == EntryLink(entry)
              pub_dt == PubDt(entry, clock, tz)
              stamped == PubParsed(entry) = NoTime
          IN  IF Skips(link, seen_urls)
              THEN /\ log' = Append(log, [feed |-> feed_i, key |-> link, stamped |-> stamped,
                                          outcome |-> IF Truthy(link) THEN "dup" ELSE "nokey"])
                   /\ UNCHANGED <<seen_urls, collected>>
              ELSE /\ seen_urls' = SeenAdd(seen_urls, link, ~TooOld(pub_dt, cutoff))
                   /\ IF TooOld(pub_dt, cutoff)
                      THEN /\ log' = Append(log, [feed |-> feed_i, key |-> link,
                                                  stamped |-> stamped, outcome |-> "old"])
                           /\ UNCHANGED collected
                      ELSE /\ log' = Append(log, [feed |-> feed_i, key |-> link,
                                                  stamped |-> stamped, outcome |-> "collected"])
                           /\ collected' = Append(collected, Normalize(entry, link, pub_dt))
    /\ UNCHANGED <<pc, tz, clock, ticks, summarizer, cutoff, feed_i, todo, enriched,
                   files, post_text, publish, report, callVars>>

\* the feed has no more entries
EndOfFeed ==
    /\ pc = "entries"
    /\ feed_i' = feed_i + 1
    /\ pc' = "feeds"
    /\ UNCHANGED <<tz, clock, ticks, summarizer, cutoff, seen_urls, collected, log, todo,
                   enriched, files, post_text, publish, report, callVars>>

\* all feeds read: sorted(collected, key=published, reverse=True)
FeedsDone ==
    /\ pc = "feeds"
    /\ feed_i > NumFeeds
    /\ todo' = SortByPublished(collected)
    /\ enriched' = <<>>
    /\ pc' = "enrich"
    /\ UNCHANGED <<tz, clock, ticks, summarizer, cutoff, feed_i, seen_urls, collected,
                   log, files, post_text, publish, report, callVars>>

ExtractResults == {<<>>, <<"G","e","n","e"," ","t","r","i","a","l","."," ","O","k","!"," ","E","n","d",".">>}

TierOutcomes == {[ok |-> FALSE, out |-> <<>>],
                 [ok |-> TRUE, out |-> <<"A"," ","s","t","u","d","y",".">>]}

\* one turn of the enrichment loop: extract, summarize, score
EnrichOne ==
    /\ pc = "enrich"
    /\ todo # <<>>
    /\ \E extracted \in ExtractResults, remote \in TierOutcomes, local \in TierOutcomes :
          LET c == Head(todo)
              full_text == IF Truthy(extracted) THEN extracted ELSE Or(c.summary_raw, c.title)
              summary == summarize(summarizer, full_text, SummaryCap, remote, local)
              score == score_article(c.title, summary, KEYWORDS)
          IN  enriched' = Append(enriched,
                  [title |-> c.title, link |-> c.link, published |-> IsoFormat(c.published),
                   summary |-> summary, score |-> score,
                   source |-> Or(c.source, Netloc(c.link))])
    /\ todo' = Tail(todo)
    /\ UNCHANGED <<pc, tz, clock, ticks, summarizer, cutoff, feed_i, seen_urls, collected,
                   log, files, post_text, publish, report, callVars>>

\* rank, write the JSON record, build the post and write it (a write that
\* fails raises and ends the run before anything is published; not modelled)
RankAndRender ==
    /\ pc = "enrich"
    /\ todo = <<>>
    /\ LET ranked == RankSort(enriched)
           post == build_linkedin_post(Slice(ranked, MAX_ARTICLES), DefaultPostCap,
                                       DateStr(clock), DateStr(clock))
       IN  /\ enriched' = ranked
           /\ post_text' = post
           /\ files' = [json |-> ranked, txt |-> post]
    /\ pc' = "publish"
    /\ UNCHANGED <<tz, clock, ticks, summarizer, cutoff, feed_i, seen_urls, collected,
                   log, todo, publish, report, callVars>>

Credentials == {None, <<>>, <<"x">>}

\* no token or no author urn: nothing is posted
PublishSkipped ==
    /\ pc = "publish"
    /\ \E token \in Credentials, urn \in Credentials : ~(Truthy(token) /\ Truthy(urn))
    /\ publish' = "skipped"
    /\ report' = "manual"
    /\ pc' = "done"
    /\ UNCHANGED <<tz, clock, ticks, summarizer, cutoff, feed_i, seen_urls, collected,
                   log, todo, enriched, files, post_text, callVars>>

\* post_to_linkedin: status 200 or 201
PublishOk ==
    /\ pc = "publish"
    /\ \E token \in Credentials, urn \in Credentials : Truthy(token) /\ Truthy(urn)
    /\ publish' = "ok"
    /\ report' = "posted"
    /\ pc' = "done"
    /\ UNCHANGED <<tz, clock, ticks, summarizer, cutoff, feed_i, seen_urls, collected,
                   log, todo, enriched, files, post_text, callVars>>

\* post_to_linkedin: any other status; run_agent prints the failure
PublishBadStatus ==
    /\ pc = "publish"
    /\ \E token \in Credentials, urn \in Credentials : Truthy(token) /\ Truthy(urn)
    /\ publish' = "bad_status"
    /\ report' = "failed"
    /\ pc' = "done"
    /\ UNCHANGED <<tz, clock, ticks, summarizer, cutoff, feed_i, seen_urls, collected,
                   log, todo, enriched, files, post_text, callVars>>

\* post_to_linkedin: requests.post raises (connection error, timeout); nothing
\* in post_to_linkedin or run_agent catches it
PublishTransportError ==
    /\ pc = "publish"
    /\ \E token \in Credentials, urn \in Credentials : Truthy(token) /\ Truthy(urn)
    /\ publish' = "transport_error"
    /\ pc' = "raised"
    /\ UNCHANGED <<tz, clock, ticks, summarizer, cutoff, feed_i, seen_urls, collected,
                   log, todo, enriched, files, post_text, report, callVars>>

Next ==
    \/ Tick
    \/ Start
    \/ FetchFeed
    \/ FetchFeedFailed
    \/ ProcessEntry
    \/ EndOfFeed
    \/ FeedsDone
    \/ EnrichOne
    \/ RankAndRender
    \/ PublishSkipped
    \/ PublishOk
    \/ PublishBadStatus
    \/ PublishTransportError

Spec == Init /\ [][Next]_vars

\* run_agent up to "Collected ... recent entries": the feed loop alone
NextIngest ==
    \/ Tick
    \/ Start
    \/ FetchFeed
    \/ FetchFeedFailed
    \/ ProcessEntry
    \/ EndOfFeed
    \/ FeedsDone

SpecIngest == Init /\ [][NextIngest]_vars

--------------------------------------------------------------------------
(* Properties of the feed loop *)

Last(s) == s[Len(s)]

\* C6: when an entry carries a key that an earlier entry of the run already
\* carried, it is discarded and the collection is left as it was, whatever the
\* two published times; the first entry with a key is never discarded as a
\* duplicate: it goes on to the time filter, and if it passes, it is the item
\* appended under that key.
FirstKeyWins ==
    [][Len(log') = Len(log) + 1 =>
          LET e == Last(log')
              seenBefore == \E i \in DOMAIN log : log[i].key = e.key
          IN  Truthy(e.key) =>
                 IF seenBefore
                 THEN e.outcome = "dup" /\ collected' = collected
                 ELSE /\ e.outcome \in {"old", "collected"}
                      /\ e.outcome = "old" => collected' = collected
                      /\ e.outcome = "collected" =>
                            /\ Len(collected') = Len(collected) + 1
                            /\ SubSeq(collected', 1, Len(collected)) = collected
                            /\ Last(collected').link = e.key]_vars

\* two entries of different feeds share a key; the first was outside the
\* window, the later one (stamped with the current time) was dropped as seen
StaleFirstShadowsLater ==
    \E i, j \in DOMAIN log :
        /\ i < j
        /\ Truthy(log[i].key) /\ log[i].key = log[j].key
        /\ log[i].feed # log[j].feed
        /\ log[i].outcome = "old"
        /\ log[j].outcome = "dup" /\ log[j].stamped

\* C7: no two collected items have the same key, every collected item has a
\* key, and an entry with neither link nor id adds nothing.
UniqueKeys ==
    /\ \A i, j \in DOMAIN collected :
          i # j => collected[i].link # collected[j].link
    /\ \A i \in DOMAIN collected : Truthy(collected[i].link)
    /\ \A i \in DOMAIN log : ~Truthy(log[i].key) => log[i].outcome = "nokey"
    /\ Len(collected) = Cardinality({i \in DOMAIN log : log[i].outcome = "collected"})

\* a second entry with the key of a collected one has been read and dropped
DuplicateDropped ==
    /\ Len(collected) = 1
    /\ \E i, j \in DOMAIN log :
          /\ i < j /\ log[i].key = collected[1].link /\ log[j].key = collected[1].link
          /\ log[i].outcome = "collected" /\ log[j].outcome = "dup"

\* C8: every collected item is published at or after the cutoff, the time of
\* the start of the run less the retention window; an entry without a
\* published or updated time that reaches the filter is always collected.
WithinWindow ==
    pc # "start" =>
        /\ cutoff \in {MinusHours(c, TIME_WINDOW_HOURS) : c \in StartClocks}
        /\ \A i \in DOMAIN collected : ~DtLess(collected[i].published, cutoff)
        /\ \A i \in DOMAIN log :
              (log[i].stamped /\ log[i].outcome \notin {"nokey", "dup"})
                  => log[i].outcome = "collected"

\* one entry was too old and dropped, one without a time was stamped and kept
StampedKeptStaleDropped ==
    /\ \E i \in DOMAIN log : log[i].outcome = "old"
    /\ \E i \in DOMAIN log : log[i].stamped /\ log[i].outcome = "collected"
    /\ \E i \in DOMAIN collected : DtLess(MinusHours(clock, 1), collected[i].published)

--------------------------------------------------------------------------
(* Properties of the publish step *)

\* C5: when publishing is attempted and fails, by a bad status or by a
\* transport error, the failure is reported, run_agent reaches its end, and the
\* two artifacts are as they were written.
PublishFailureCompletes ==
    publish \in {"bad_status", "transport_error"} =>
        /\ pc = "done"
        /\ report = "failed"
        /\ files = [json |-> enriched, txt |-> post_text]

--------------------------------------------------------------------------
(* the ranking step of run_agent on sample collections *)

MaxRankItems == 4

MaxScore == 1

RankTimes == {<<105, 0>>, <<105, 1>>, <<106, 0>>}

\* collected items told apart by their link, with the score each will get
RankInputs ==
    UNION {[1..n -> [published : RankTimes, score : 0..MaxScore]] : n \in 0..MaxRankItems}

LinkOf(i) == <<"u", DigitChars[i + 1]>>

CollectedOf(input) ==
    [i \in DOMAIN input |-> [link |-> LinkOf(i), published |-> input[i].published,
                             score |-> input[i].score]]

\* the enrichment loop walks sorted(collected, ...) and keeps isoformat()
EnrichedOf(input) ==
    LET sorted == SortByPublished(CollectedOf(input))
    IN  [i \in DOMAIN sorted |-> [link |-> sorted[i].link,
                                  published |-> IsoFormat(sorted[i].published),
                                  score |-> sorted[i].score]]

InitRank ==
    /\ IdleRun
    /\ args \in [fn : {"rank"}, input : RankInputs]
    /\ result = <<>>

CallRank ==
    /\ args.fn = "rank"
    /\ result = <<>>
    /\ result' = <<RankSort(EnrichedOf(args.input))>>
    /\ UNCHANGED <<args, runVars>>

NextRank == CallRank

SpecRank == InitRank /\ [][NextRank]_vars

--------------------------------------------------------------------------
(* Properties of the ranking step *)

\* the position in s of the item with this link
PosOf(s, link) == CHOOSE i \in DOMAIN s : s[i].link = link

\* the published time of the collected item with this link
TimeOf(link) == CollectedOf(args.input)[PosOf(CollectedOf(args.input), link)].published

SameRank(a, b) == a.score = b.score /\ TimeOf(a.link) = TimeOf(b.link)

\* C10: the ranked list holds the enriched items; of two adjacent items the
\* earlier has the higher score, or the same score and a published time that
\* is not earlier; items equal in both keep their order; ranking the ranked
\* list again changes nothing.
RankedOrder ==
    Returned("rank") =>
        LET before == EnrichedOf(args.input)
            ranked == result[1]
        IN  /\ Len(ranked) = Len(before)
            /\ \A i \in DOMAIN before : \E j \in DOMAIN ranked : ranked[j] = before[i]
            /\ \A i \in 1..(Len(ranked) - 1) :
                  \/ ranked[i].score > ranked[i + 1].score
                  \/ /\ ranked[i].score = ranked[i + 1].score
                     /\ ~DtLess(TimeOf(ranked[i].link), TimeOf(ranked[i + 1].link))
            /\ \A i, j \in DOMAIN ranked :
                  (i < j /\ SameRank(ranked[i], ranked[j])) =>
                      PosOf(before, ranked[i].link) < PosOf(before, ranked[j].link)
            /\ RankSort(ranked) = ranked

\* the sort moved an item up by its score, broke a tie by time and kept two
\* items that are equal in both in their order
RankedWithTies ==
    /\ Returned("rank")
    /\ result[1] # EnrichedOf(args.input)
    /\ \E i, j \in DOMAIN result[1] :
          i < j /\ SameRank(result[1][i], result[1][j])
    /\ \E i \in 1..(Len(result[1]) - 1) :
          /\ result[1][i].score = result[1][i + 1].score
          /\ DtLess(TimeOf(result[1][i + 1].link), TimeOf(result[1][i].link))

====
